---- MODULE Spec2Model ----
(***************************************************************************)
(* The IRC session event-dispatch engine of server/irc_handler.go: the     *)
(* run loop of one ircHandler, dispatchMessage and its handlers, and the   *)
(* goroutines receiveDCCSend starts.                                       *)
(*                                                                         *)
(* A Go string is a sequence of one-character strings, so that the code's  *)
(* tests on characters (Command[0] == '4', IndexAny, Split, TrimRight) are *)
(* computed and not assumed.  TLA+ strings are used only for tags (event   *)
(* names, program counters, kinds).  Params[k] of the code is Params[k+1]  *)
(* here.                                                                   *)
(***************************************************************************)
EXTENDS Integers, Sequences, FiniteSets, TLC

VARIABLES
    loop,         \* run(): "running", "panicked" (index out of range) or "returned"
    whois,        \* ircHandler.whois
    motdBuffer,   \* ircHandler.motdBuffer
    dccProgress,  \* ircHandler.dccProgress, a channel of capacity 4
    dcc,          \* the goroutines started by `go i.receiveDCCSend(pack, msg)`
    pendingDCC,   \* the process-wide pending-offer table, file name -> offer
    accepted,     \* offers consumed by the acceptance endpoint
    now,          \* wall-clock time in seconds
    inputs,       \* history: the inputs the run loop has taken, in order
    events,       \* history: the sendJSON calls, in order
    storage,      \* history: the calls on state.user, in order
    lastConnErr,  \* run(): the local variable lastConnErr
    connState,    \* the session-visible connection state (setConnectionState)
    logLines,     \* history: the lines written by i.log, in order
    registry,     \* the process-wide session registry entry of this session
    listBuffer,   \* ircHandler.listBuffer
    updateChanlist,  \* the session flag "update_chanlist_" + host
    channelIndexes,  \* the process-wide channel-list cache entry of this host
    outbound,     \* history: the commands issued on the client, in order
    tasks         \* the goroutines started by listEnd that have not finished

vars == <<loop, whois, motdBuffer, dccProgress, dcc, pendingDCC, accepted, now,
          inputs, events, storage, lastConnErr, connState, logLines, registry,
          listBuffer, updateChanlist, channelIndexes, outbound, tasks>>

(* What the goroutines of receiveDCCSend, the acceptance endpoint and the   *)
(* clock leave alone.                                                       *)
sessionVars == <<lastConnErr, connState, logLines, registry, listBuffer, updateChanlist,
                 channelIndexes, outbound, tasks>>

(* What dispatchMessage and the progress case of run leave alone. *)
loopVars == <<lastConnErr, connState, logLines, registry, channelIndexes>>

----------------------------------------------------------------------------
(* Bounds of the model *)

MaxInputs == 5

MaxTime == 200

MaxTransferSteps == 3

----------------------------------------------------------------------------
(* Go strings *)

sp == " "

RECURSIVE TrimRight(_)
TrimRight(s) ==
    IF s # <<>> /\ s[Len(s)] = sp THEN TrimRight(SubSeq(s, 1, Len(s) - 1)) ELSE s

RECURSIVE SplitAcc(_, _, _)
SplitAcc(s, cur, acc) ==
    IF s = <<>> THEN Append(acc, cur)
    ELSE IF Head(s) = sp THEN SplitAcc(Tail(s), <<>>, Append(acc, cur))
    ELSE SplitAcc(Tail(s), Append(cur, Head(s)), acc)

Split(s) == SplitAcc(s, <<>>, <<>>)

ChannelPrefixes == {"&", "#", "+", "!"}

isChannel(s) == Len(s) > 0 /\ s[1] \in ChannelPrefixes

----------------------------------------------------------------------------
(* Command identifiers *)

PRIVMSG == <<"P", "R", "I", "V", "M", "S", "G">>
NOTICE == <<"N", "O", "T", "I", "C", "E">>
ERROR == <<"E", "R", "R", "O", "R">>
RPL_WHOISUSER == <<"3", "1", "1">>
RPL_WHOISSERVER == <<"3", "1", "2">>
RPL_ENDOFWHOIS == <<"3", "1", "8">>
RPL_WHOISCHANNELS == <<"3", "1", "9">>
RPL_MOTD == <<"3", "7", "2">>
RPL_MOTDSTART == <<"3", "7", "5">>
RPL_ENDOFMOTD == <<"3", "7", "6">>
RPL_WELCOME == <<"0", "0", "1">>
RPL_YOURHOST == <<"0", "0", "2">>
RPL_LIST == <<"3", "2", "2">>
RPL_LISTEND == <<"3", "2", "3">>
ERR_NOSUCHCHANNEL == <<"4", "0", "3">>
ERR_ERRONEUSNICKNAME == <<"4", "3", "2">>
ERR_NICKNAMEINUSE == <<"4", "3", "3">>
ERR_NICKCOLLISION == <<"4", "3", "6">>
ERR_UNAVAILRESOURCE == <<"4", "3", "7">>
ERR_FORWARD == <<"4", "7", "0">>

excludedErrors ==
    <<ERR_NICKNAMEINUSE, ERR_NICKCOLLISION, ERR_UNAVAILRESOURCE, ERR_FORWARD>>

isExcludedErrorNever(cmd) == FALSE

isExcludedError(cmd) == \E k \in 1..Len(excludedErrors) : excludedErrors[k] = cmd

----------------------------------------------------------------------------
(* Messages.  CTCP is the result of msg.ToCTCP(): NoCTCP for nil. *)

Host == <<"i", "r", "c">>

EmptyMap == [x \in {} |-> 0]

NoCTCP == [Command |-> "", Send |-> FALSE, Pack |-> <<>>]

Msg(cmd, params) ==
    [Command |-> cmd, Params |-> params, Sender |-> <<"s">>, FromServer |-> TRUE,
     CTCP |-> NoCTCP]

LastParam(msg) ==
    IF Len(msg.Params) > 0 THEN msg.Params[Len(msg.Params)] ELSE <<>>

Is(nick) == nick = <<"m", "e">>

----------------------------------------------------------------------------
(* The handler's state as one value, so that handlers compose as functions: *)
(* cur is the index in inputs of the input being handled.                   *)

H(cur) ==
    [loop |-> loop, whois |-> whois, motdBuffer |-> motdBuffer, dcc |-> dcc,
     events |-> events, storage |-> storage, cur |-> cur,
     listBuffer |-> listBuffer, updateChanlist |-> updateChanlist,
     channelIndexes |-> channelIndexes, outbound |-> outbound, tasks |-> tasks]

sendJSON(h, name, data) ==
    [h EXCEPT !.events = Append(@, [name |-> name, by |-> h.cur, data |-> data])]

call(h, op, async, args) ==
    [h EXCEPT !.storage = Append(@, [op |-> op, by |-> h.cur, async |-> async,
                                         args |-> args])]

panic(h) == [h EXCEPT !.loop = "panicked"]

(* A Go error value: nil, or an error with the text of Error(). *)
NilErr == [nil |-> TRUE, text |-> <<>>]

(* A *storage.MapChannelListIndex: nil, or an index holding one item per    *)
(* channel name.                                                            *)
NilIndex == [nil |-> TRUE, items |-> EmptyMap, finished |-> FALSE]

NewMapChannelListIndex == [nil |-> FALSE, items |-> EmptyMap, finished |-> FALSE]

----------------------------------------------------------------------------
(* WHOIS *)

WhoisReply ==
    [Nick |-> <<>>, Username |-> <<>>, Host |-> <<>>, Realname |-> <<>>,
     Server |-> <<>>, Channels |-> <<>>]

whoisUserShifted(h, msg) ==
    LET n == Len(msg.Params)
        h1 == IF n >= 3 THEN [h EXCEPT !.whois.Nick = msg.Params[3]] ELSE h
        h2 == IF n >= 4 THEN [h1 EXCEPT !.whois.Username = msg.Params[4]] ELSE h1
        h3 == IF n >= 5 THEN [h2 EXCEPT !.whois.Host = msg.Params[5]] ELSE h2
    IN  IF n >= 6 THEN [h3 EXCEPT !.whois.Realname = msg.Params[6]] ELSE panic(h3)

whoisUser(h, msg) ==
    LET n == Len(msg.Params)
        h1 == IF n >= 2 THEN [h EXCEPT !.whois.Nick = msg.Params[2]] ELSE h
        h2 == IF n >= 3 THEN [h1 EXCEPT !.whois.Username = msg.Params[3]] ELSE h1
        h3 == IF n >= 4 THEN [h2 EXCEPT !.whois.Host = msg.Params[4]] ELSE h2
    IN  IF n >= 6 THEN [h3 EXCEPT !.whois.Realname = msg.Params[6]] ELSE panic(h3)

whoisServer(h, msg) ==
    IF Len(msg.Params) >= 3 THEN [h EXCEPT !.whois.Server = msg.Params[3]]
    ELSE panic(h)

whoisChannels(h, msg) ==
    [h EXCEPT !.whois.Channels = @ \o Split(TrimRight(LastParam(msg)))]

whoisEndAlways(h, msg) ==
    [sendJSON(h, "whois", h.whois) EXCEPT !.whois = WhoisReply]

whoisEndNoReset(h, msg) ==
    IF h.whois.Nick # <<>> THEN sendJSON(h, "whois", h.whois) ELSE h

whoisEnd(h, msg) ==
    LET h1 == IF h.whois.Nick # <<>> THEN sendJSON(h, "whois", h.whois) ELSE h
    IN  [h1 EXCEPT !.whois = WhoisReply]

----------------------------------------------------------------------------
(* MOTD *)

MOTD == [Server |-> <<>>, Title |-> <<>>, Content |-> <<>>]

motdStart(h, msg) ==
    [h EXCEPT !.motdBuffer.Server = Host, !.motdBuffer.Title = LastParam(msg)]

motd(h, msg) ==
    [h EXCEPT !.motdBuffer.Content = Append(@, LastParam(msg))]

motdEnd(h, msg) ==
    [sendJSON(h, "motd", h.motdBuffer) EXCEPT !.motdBuffer = MOTD]

----------------------------------------------------------------------------
(* Nick rejected, channel forward, ERROR *)

badNick(h, msg) == sendJSON(h, "nick_fail", [Server |-> Host])

forward(h, msg) ==
    IF Len(msg.Params) > 2
    THEN sendJSON(h, "channel_forward",
                  [Server |-> Host, Old |-> msg.Params[2], New |-> msg.Params[3]])
    ELSE h

error(h, msg) ==
    sendJSON(h, "error", [Server |-> Host, Message |-> LastParam(msg), Target |-> <<>>])

----------------------------------------------------------------------------
(* PRIVMSG and NOTICE.  A goroutine started by `go i.receiveDCCSend` is     *)
(* named by the index of the input that started it.                         *)

spawn(h, pack, msg) ==
    [h EXCEPT !.dcc = (h.cur :> [pc |-> "start", File |-> pack.File, From |-> msg.Sender,
                                 Enabled |-> FALSE, Autoget |-> FALSE, openOk |-> FALSE,
                                 opened |-> FALSE, recorded |-> 0, produced |-> 0,
                                 sentAt |-> 0, wake |-> 0]) @@ @]

textKeepsTarget(h, msg) ==
    IF Len(msg.Params) = 0 THEN panic(h)
    ELSE
    LET message == [ID |-> h.cur, Server |-> Host, From |-> msg.Sender,
                    Content |-> LastParam(msg), To |-> <<>>]
        target == msg.Params[1]
        h1 == IF Is(target)
              THEN LET p == sendJSON(h, "pm", message)
                   IN  IF ~msg.FromServer
                       THEN call(p, "AddOpenDM", FALSE, <<Host, message.From>>)
                       ELSE p
              ELSE sendJSON(h, "message", [message EXCEPT !.To = target])
    IN  IF target # <<"*">> /\ ~msg.FromServer
        THEN call(h1, "LogMessage", TRUE,
                  [ID |-> message.ID, Server |-> message.Server, From |-> message.From,
                   To |-> target, Content |-> message.Content])
        ELSE h1

textLogsServer(h, msg) ==
    IF Len(msg.Params) = 0 THEN panic(h)
    ELSE
    LET message == [ID |-> h.cur, Server |-> Host, From |-> msg.Sender,
                    Content |-> LastParam(msg), To |-> <<>>]
        target == msg.Params[1]
        h1 == IF Is(target)
              THEN LET p == sendJSON(h, "pm", message)
                   IN  IF ~msg.FromServer
                       THEN call(p, "AddOpenDM", FALSE, <<Host, message.From>>)
                       ELSE p
              ELSE sendJSON(h, "message", [message EXCEPT !.To = target])
        to == IF Is(target) THEN message.From ELSE target
    IN  IF to # <<"*">>
        THEN call(h1, "LogMessage", TRUE,
                  [ID |-> message.ID, Server |-> message.Server, From |-> message.From,
                   To |-> to, Content |-> message.Content])
        ELSE h1

text(h, msg) ==
    IF Len(msg.Params) = 0 THEN panic(h)
    ELSE
    LET message == [ID |-> h.cur, Server |-> Host, From |-> msg.Sender,
                    Content |-> LastParam(msg), To |-> <<>>]
        target == msg.Params[1]
        h1 == IF Is(target)
              THEN LET p == sendJSON(h, "pm", message)
                   IN  IF ~msg.FromServer
                       THEN call(p, "AddOpenDM", FALSE, <<Host, message.From>>)
                       ELSE p
              ELSE sendJSON(h, "message", [message EXCEPT !.To = target])
        to == IF Is(target) THEN message.From ELSE target
    IN  IF to # <<"*">> /\ ~msg.FromServer
        THEN call(h1, "LogMessage", TRUE,
                  [ID |-> message.ID, Server |-> message.Server, From |-> message.From,
                   To |-> to, Content |-> message.Content])
        ELSE h1

message(h, msg) ==
    LET ctcp == msg.CTCP
    IN  IF ctcp # NoCTCP /\ ctcp.Command = "DCC" /\ ctcp.Send /\ ctcp.Pack # <<>>
        THEN spawn(h, ctcp.Pack[1], msg)
        ELSE IF ctcp # NoCTCP /\ ~(ctcp.Command = "DCC" /\ ctcp.Send)
                /\ ctcp.Command # "ACTION"
        THEN h
        ELSE text(h, msg)

----------------------------------------------------------------------------
(* The connection "info" replies and the channel list *)

RECURSIVE Join(_, _)
(* strings.Join *)
Join(elems, sep) ==
    IF elems = <<>> THEN <<>>
    ELSE IF Len(elems) = 1 THEN elems[1]
    ELSE elems[1] \o <<sep>> \o Join(Tail(elems), sep)

Digits == <<"0", "1", "2", "3", "4", "5", "6", "7", "8", "9">>

isDigit(c) == \E d \in 1..10 : Digits[d] = c

digit(c) == (CHOOSE d \in 1..10 : Digits[d] = c) - 1

RECURSIVE AtoiAcc(_, _)
AtoiAcc(s, acc) ==
    IF s = <<>> THEN acc ELSE AtoiAcc(Tail(s), 10 * acc + digit(Head(s)))

isNumber(s) == s # <<>> /\ \A k \in 1..Len(s) : isDigit(s[k])

(* strconv.Atoi with the error dropped: 0 for what is not a number *)
Atoi(s) ==
    IF isNumber(s) THEN AtoiAcc(s, 0)
    ELSE IF s # <<>> /\ s[1] = "+" /\ isNumber(Tail(s)) THEN AtoiAcc(Tail(s), 0)
    ELSE IF s # <<>> /\ s[1] = "-" /\ isNumber(Tail(s)) THEN 0 - AtoiAcc(Tail(s), 0)
    ELSE 0

(* channelIndexes.Get: the second result says that the cached index of the  *)
(* host is absent or stale.                                                 *)
needsUpdate(cache) == cache.index.nil \/ ~cache.fresh

(* ChannelListIndex.Add: one item per channel name *)
Add(idx, item) ==
    [idx EXCEPT !.items = (item.Name :> item) @@ @]

Finish(idx) == [idx EXCEPT !.finished = TRUE]

List(h) == [h EXCEPT !.outbound = Append(@, [op |-> "List", by |-> h.cur])]

info(h, msg) ==
    LET h1 == IF msg.Command = RPL_WELCOME
              THEN IF Len(msg.Params) = 0 THEN panic(h)
                   ELSE LET n == sendJSON(h, "nick", [Server |-> Host, New |-> msg.Params[1]])
                            u == IF needsUpdate(h.channelIndexes)
                                 THEN List([n EXCEPT !.listBuffer = NewMapChannelListIndex])
                                 ELSE n
                        IN  call(u, "SetNick", TRUE, <<msg.Params[1], Host>>)
              ELSE h
    IN  IF h1.loop = "panicked" \/ Len(msg.Params) = 0 THEN panic(h1)
        ELSE sendJSON(h1, "pm", [Server |-> Host, From |-> msg.Sender,
                                 Content |-> Join(Tail(msg.Params), sp)])

listAlwaysCreates(h, msg) ==
    LET h1 == IF h.listBuffer.nil
              THEN [h EXCEPT !.listBuffer = NewMapChannelListIndex]
              ELSE h
    IN  IF Len(msg.Params) < 3 THEN panic(h1)
        ELSE [h1 EXCEPT !.listBuffer =
                 Add(@, [Name |-> msg.Params[2], UserCount |-> Atoi(msg.Params[3]),
                         Topic |-> LastParam(msg)])]

list(h, msg) ==
    LET h1 == IF h.listBuffer.nil /\ h.updateChanlist
              THEN [h EXCEPT !.listBuffer = NewMapChannelListIndex]
              ELSE h
    IN  IF h1.listBuffer.nil THEN h1
        ELSE IF Len(msg.Params) < 3 THEN panic(h1)
        ELSE [h1 EXCEPT !.listBuffer =
                 Add(@, [Name |-> msg.Params[2], UserCount |-> Atoi(msg.Params[3]),
                         Topic |-> LastParam(msg)])]

listEndKeepsBuffer(h, msg) ==
    IF ~h.listBuffer.nil
    THEN [h EXCEPT !.updateChanlist = FALSE,
                   !.tasks = @ \cup {[by |-> h.cur, idx |-> h.listBuffer]}]
    ELSE h

listEndKeepsFlag(h, msg) ==
    IF ~h.listBuffer.nil
    THEN [h EXCEPT !.tasks = @ \cup {[by |-> h.cur, idx |-> h.listBuffer]},
                   !.listBuffer = NilIndex]
    ELSE h

listEnd(h, msg) ==
    IF ~h.listBuffer.nil
    THEN [h EXCEPT !.updateChanlist = FALSE,
                   !.tasks = @ \cup {[by |-> h.cur, idx |-> h.listBuffer]},
                   !.listBuffer = NilIndex]
    ELSE h

----------------------------------------------------------------------------
(* dispatchMessage *)

HandledCommands ==
    {PRIVMSG, NOTICE, ERROR, RPL_WHOISUSER, RPL_WHOISSERVER, RPL_WHOISCHANNELS,
     RPL_ENDOFWHOIS, RPL_MOTDSTART, RPL_MOTD, RPL_ENDOFMOTD, ERR_ERRONEUSNICKNAME,
     ERR_FORWARD, RPL_WELCOME, RPL_YOURHOST, RPL_LIST, RPL_LISTEND}

handler(h, msg) ==
    CASE msg.Command \in {PRIVMSG, NOTICE} -> message(h, msg)
      [] msg.Command = ERROR -> error(h, msg)
      [] msg.Command = RPL_WHOISUSER -> whoisUser(h, msg)
      [] msg.Command = RPL_WHOISSERVER -> whoisServer(h, msg)
      [] msg.Command = RPL_WHOISCHANNELS -> whoisChannels(h, msg)
      [] msg.Command = RPL_ENDOFWHOIS -> whoisEnd(h, msg)
      [] msg.Command = RPL_MOTDSTART -> motdStart(h, msg)
      [] msg.Command = RPL_MOTD -> motd(h, msg)
      [] msg.Command = RPL_ENDOFMOTD -> motdEnd(h, msg)
      [] msg.Command = ERR_ERRONEUSNICKNAME -> badNick(h, msg)
      [] msg.Command = ERR_FORWARD -> forward(h, msg)
      [] msg.Command \in {RPL_WELCOME, RPL_YOURHOST} -> info(h, msg)
      [] msg.Command = RPL_LIST -> list(h, msg)
      [] msg.Command = RPL_LISTEND -> listEnd(h, msg)
      [] OTHER -> h

firstChannelFrom(params, from) ==
    LET hits == {k \in from..Len(params) : isChannel(params[k])}
    IN  IF hits = {} THEN <<>>
        ELSE params[CHOOSE k \in hits : \A j \in hits : k <= j]

errTargetAnyCount(params) == firstChannelFrom(params, 1)

errTarget(params) ==
    IF Len(params) > 2 THEN firstChannelFrom(params, 2) ELSE <<>>

dispatchMessageHandlerFirst(h, msg) ==
    IF Len(msg.Command) = 0 THEN panic(h)
    ELSE
    LET h1 == IF msg.Command \in HandledCommands THEN handler(h, msg) ELSE h
    IN  IF msg.Command[1] = "4" /\ ~isExcludedError(msg.Command)
        THEN sendJSON(h1, "error", [Server |-> Host, Message |-> LastParam(msg),
                                    Target |-> errTarget(msg.Params)])
        ELSE h1

dispatchMessage(h, msg) ==
    IF Len(msg.Command) = 0 THEN panic(h)
    ELSE
    LET h1 == IF msg.Command[1] = "4" /\ ~isExcludedError(msg.Command)
              THEN sendJSON(h, "error", [Server |-> Host, Message |-> LastParam(msg),
                                         Target |-> errTarget(msg.Params)])
              ELSE h
    IN  IF msg.Command \in HandledCommands THEN handler(h1, msg) ELSE h1

----------------------------------------------------------------------------
(* The run loop *)

DownloadFailed == "%s: Download failed (%s)"
DownloadFinished == "Download finished, get it here: %s://%s/downloads/%s/%s"
DownloadStarting == "%s: Starting download"
DownloadProgress == "%s: %.1f%%, %s, %s remaining, %.1fs left"

sendDCCInfoFirst(h, format, log, args) ==
    LET msg == [Server |-> Host, From |-> <<"@", "d", "c", "c">>,
                Content |-> [format |-> format, args |-> args]]
        h1 == [h EXCEPT !.events = <<[name |-> "pm", by |-> h.cur, data |-> msg]>> \o @]
    IN  IF log
        THEN call(call(h1, "AddOpenDM", FALSE, <<msg.Server, msg.From>>),
                  "LogMessage", FALSE,
                  [Server |-> msg.Server, From |-> msg.From, Content |-> msg.Content])
        ELSE h1

sendDCCInfo(h, format, log, args) ==
    LET msg == [Server |-> Host, From |-> <<"@", "d", "c", "c">>,
                Content |-> [format |-> format, args |-> args]]
        h1 == sendJSON(h, "pm", msg)
    IN  IF log
        THEN call(call(h1, "AddOpenDM", FALSE, <<msg.Server, msg.From>>),
                  "LogMessage", FALSE,
                  [Server |-> msg.Server, From |-> msg.From, Content |-> msg.Content])
        ELSE h1

progressCaseFinishedFirst(h, progress) ==
    IF progress.PercCompletion = 100
    THEN sendDCCInfo(h, DownloadFinished, TRUE, [File |-> progress.File])
    ELSE IF progress.Error # "nil"
    THEN sendDCCInfo(h, DownloadFailed, TRUE, [File |-> progress.File, Error |-> progress.Error])
    ELSE IF progress.PercCompletion = 0
    THEN sendDCCInfo(h, DownloadStarting, TRUE, [File |-> progress.File])
    ELSE sendDCCInfo(h, DownloadProgress, FALSE, [File |-> progress.File, PercCompletion |-> progress.PercCompletion])

progressCase(h, progress) ==
    IF progress.Error # "nil"
    THEN sendDCCInfo(h, DownloadFailed, TRUE, [File |-> progress.File, Error |-> progress.Error])
    ELSE IF progress.PercCompletion = 100
    THEN sendDCCInfo(h, DownloadFinished, TRUE, [File |-> progress.File])
    ELSE IF progress.PercCompletion = 0
    THEN sendDCCInfo(h, DownloadStarting, TRUE, [File |-> progress.File])
    ELSE sendDCCInfo(h, DownloadProgress, FALSE, [File |-> progress.File, PercCompletion |-> progress.PercCompletion])

commit(h) ==
    /\ loop' = h.loop
    /\ whois' = h.whois
    /\ motdBuffer' = h.motdBuffer
    /\ dcc' = h.dcc
    /\ events' = h.events
    /\ storage' = h.storage
    /\ listBuffer' = h.listBuffer
    /\ updateChanlist' = h.updateChanlist
    /\ outbound' = h.outbound
    /\ tasks' = h.tasks

runMessage(msg) ==
    /\ loop = "running"
    /\ Len(inputs) < MaxInputs
    /\ inputs' = Append(inputs, [kind |-> "msg", msg |-> msg])
    /\ commit(dispatchMessage(H(Len(inputs) + 1), msg))
    /\ UNCHANGED <<dccProgress, pendingDCC, accepted, now, loopVars>>

runProgressNewest ==
    /\ loop = "running"
    /\ Len(inputs) < MaxInputs
    /\ dccProgress # <<>>
    /\ inputs' = Append(inputs, [kind |-> "progress",
                                 progress |-> dccProgress[Len(dccProgress)]])
    /\ dccProgress' = SubSeq(dccProgress, 1, Len(dccProgress) - 1)
    /\ commit(progressCase(H(Len(inputs) + 1), dccProgress[Len(dccProgress)]))
    /\ UNCHANGED <<pendingDCC, accepted, now, loopVars>>

runProgress ==
    /\ loop = "running"
    /\ Len(inputs) < MaxInputs
    /\ dccProgress # <<>>
    /\ inputs' = Append(inputs, [kind |-> "progress", progress |-> Head(dccProgress)])
    /\ dccProgress' = Tail(dccProgress)
    /\ commit(progressCase(H(Len(inputs) + 1), Head(dccProgress)))
    /\ UNCHANGED <<pendingDCC, accepted, now, loopVars>>

(* The connection-state case.  A line of i.log carries its words and, for   *)
(* "Connection error:", the text of the error.                              *)
ConnectionError == "Connection error:"
Connected == "Connected"

newConnectionUpdate(server, state) ==
    [Server |-> server, Connected |-> state.Connected, Error |-> state.Error.text]

setConnectionState(state) == connState' = state

logLine(by, words, err) == [by |-> by, words |-> words, err |-> err]

connectionCaseForgets(state) ==
    LET cur == Len(inputs) + 1
    IN  /\ events' = Append(events, [name |-> "connection_update", by |-> cur,
                                     data |-> newConnectionUpdate(Host, state)])
        /\ setConnectionState(state)
        /\ IF ~state.Error.nil
              /\ (lastConnErr.nil \/ state.Error.text # lastConnErr.text)
           THEN /\ lastConnErr' = lastConnErr
                /\ logLines' = Append(logLines, logLine(cur, ConnectionError, state.Error.text))
           ELSE IF state.Connected
           THEN /\ logLines' = Append(logLines, logLine(cur, Connected, <<>>))
                /\ UNCHANGED lastConnErr
           ELSE UNCHANGED <<lastConnErr, logLines>>

connectionCaseClears(state) ==
    LET cur == Len(inputs) + 1
    IN  /\ events' = Append(events, [name |-> "connection_update", by |-> cur,
                                     data |-> newConnectionUpdate(Host, state)])
        /\ setConnectionState(state)
        /\ IF ~state.Error.nil
              /\ (lastConnErr.nil \/ state.Error.text # lastConnErr.text)
           THEN /\ lastConnErr' = state.Error
                /\ logLines' = Append(logLines, logLine(cur, ConnectionError, state.Error.text))
           ELSE IF state.Connected
           THEN /\ logLines' = Append(logLines, logLine(cur, Connected, <<>>))
                /\ lastConnErr' = NilErr
           ELSE UNCHANGED <<lastConnErr, logLines>>

connectionCase(state) ==
    LET cur == Len(inputs) + 1
    IN  /\ events' = Append(events, [name |-> "connection_update", by |-> cur,
                                     data |-> newConnectionUpdate(Host, state)])
        /\ setConnectionState(state)
        /\ IF ~state.Error.nil
              /\ (lastConnErr.nil \/ state.Error.text # lastConnErr.text)
           THEN /\ lastConnErr' = state.Error
                /\ logLines' = Append(logLines, logLine(cur, ConnectionError, state.Error.text))
           ELSE IF state.Connected
           THEN /\ logLines' = Append(logLines, logLine(cur, Connected, <<>>))
                /\ UNCHANGED lastConnErr
           ELSE UNCHANGED <<lastConnErr, logLines>>

runConnection(state) ==
    /\ loop = "running"
    /\ Len(inputs) < MaxInputs
    /\ inputs' = Append(inputs, [kind |-> "conn", state |-> state])
    /\ connectionCase(state)
    /\ UNCHANGED <<loop, whois, motdBuffer, dccProgress, dcc, pendingDCC, accepted, now,
                   storage, registry, listBuffer, updateChanlist, channelIndexes,
                   outbound, tasks>>

(* The inbound stream is closed: the receive yields !ok. *)
deleteIRC(reg) == [present |-> FALSE, deletes |-> reg.deletes + 1]

closedCaseGoesOn == registry' = deleteIRC(registry) /\ loop' = loop

closedCase == registry' = deleteIRC(registry) /\ loop' = "returned"

runClosed ==
    /\ loop = "running"
    /\ Len(inputs) < MaxInputs
    /\ inputs' = Append(inputs, [kind |-> "closed"])
    /\ closedCase
    /\ UNCHANGED <<whois, motdBuffer, dccProgress, dcc, pendingDCC, accepted, now, events,
                   storage, lastConnErr, connState, logLines, listBuffer, updateChanlist,
                   channelIndexes, outbound, tasks>>

----------------------------------------------------------------------------
(* receiveDCCSend, one goroutine per detected offer.  Its calls on shared   *)
(* state (the table, the event sink, the progress channel) are separate     *)
(* steps that interleave with the run loop and with each other.             *)

DCCTimeout == 150

Deltas == {50, 100}

Percents == {0, 50, 100}

setPendingDCC(table, file, pack) ==
    [f \in DOMAIN table \cup {file} |-> IF f = file THEN pack ELSE table[f]]

deletePendingDCC(table, file) ==
    [f \in DOMAIN table \ {file} |-> table[f]]

dccURL(file) == [format |-> "%s://%s/downloads/%s/%s", args |-> [File |-> file]]

receiveDCCSendIgnoreConfig(id, enabled, autoget, openOk) ==
    /\ dcc[id].pc = "start"
    /\ dcc' = [dcc EXCEPT ![id] = [@ EXCEPT !.pc = "recorded", !.Enabled = enabled,
                                            !.Autoget = autoget, !.openOk = openOk,
                                            !.recorded = @ + 1]]
    /\ pendingDCC' = setPendingDCC(pendingDCC, dcc[id].File, id)
    /\ UNCHANGED <<loop, whois, motdBuffer, dccProgress, accepted, now, inputs, events,
                   storage>>
    /\ UNCHANGED sessionVars

(* Enabled, Autoget and openOk keep what the goroutine read and got. *)
receiveDCCSend(id, enabled, autoget, openOk) ==
    /\ dcc[id].pc = "start"
    /\ LET g == [dcc[id] EXCEPT !.Enabled = enabled, !.Autoget = autoget,
                                !.openOk = openOk]
       IN  IF ~enabled
           THEN /\ dcc' = [dcc EXCEPT ![id] = [g EXCEPT !.pc = "dropped"]]
                /\ UNCHANGED pendingDCC
           ELSE IF autoget
           THEN /\ dcc' = [dcc EXCEPT ![id] =
                            [g EXCEPT !.pc = IF openOk THEN "downloading" ELSE "openFailed",
                                      !.opened = openOk]]
                /\ UNCHANGED pendingDCC
           ELSE /\ dcc' = [dcc EXCEPT ![id] = [g EXCEPT !.pc = "recorded", !.recorded = @ + 1]]
                /\ pendingDCC' = setPendingDCC(pendingDCC, dcc[id].File, id)
    /\ UNCHANGED <<loop, whois, motdBuffer, dccProgress, accepted, now, inputs, events,
                   storage>>
    /\ UNCHANGED sessionVars

dccOffer(id) ==
    /\ dcc[id].pc = "recorded"
    /\ events' = Append(events,
                        [name |-> "dcc_send", by |-> id,
                         data |-> [Server |-> Host, From |-> dcc[id].From,
                                   Filename |-> dcc[id].File, URL |-> dccURL(dcc[id].File)]])
    /\ dcc' = [dcc EXCEPT ![id] = [@ EXCEPT !.pc = "sleeping", !.sentAt = now,
                                            !.wake = now + DCCTimeout]]
    /\ UNCHANGED <<loop, whois, motdBuffer, dccProgress, pendingDCC, accepted, now, inputs,
                   storage>>
    /\ UNCHANGED sessionVars

dccExpireKeeps(id) ==
    /\ dcc[id].pc = "sleeping"
    /\ now >= dcc[id].wake
    /\ dcc' = [dcc EXCEPT ![id] = [@ EXCEPT !.pc = "expired"]]
    /\ UNCHANGED <<loop, whois, motdBuffer, dccProgress, pendingDCC, accepted, now, inputs,
                   events, storage>>
    /\ UNCHANGED sessionVars

dccExpire(id) ==
    /\ dcc[id].pc = "sleeping"
    /\ now >= dcc[id].wake
    /\ pendingDCC' = deletePendingDCC(pendingDCC, dcc[id].File)
    /\ dcc' = [dcc EXCEPT ![id] = [@ EXCEPT !.pc = "expired"]]
    /\ UNCHANGED <<loop, whois, motdBuffer, dccProgress, accepted, now, inputs, events,
                   storage>>
    /\ UNCHANGED sessionVars

(* irc.DownloadDCC(file, pack, i.dccProgress): each notification is a send  *)
(* on the channel, which blocks while the channel holds 4; the deferred     *)
(* file.Close() runs when it returns, after a notification with an error    *)
(* or with 100 percent.  The field transfer names the producing goroutine   *)
(* and seq numbers its notifications; the code's DownloadProgress has no    *)
(* such fields and nothing reads them.                                      *)
DownloadDCC(id, perc, err) ==
    /\ dcc[id].pc = "downloading"
    /\ Len(dccProgress) < 4
    /\ dcc[id].produced + 1 < MaxTransferSteps \/ err # "nil" \/ perc = 100
    /\ dccProgress' = Append(dccProgress,
                             [File |-> dcc[id].File, PercCompletion |-> perc, Error |-> err,
                              transfer |-> id, seq |-> dcc[id].produced + 1])
    /\ dcc' = [dcc EXCEPT ![id] =
                 [@ EXCEPT !.produced = @ + 1,
                           !.pc = IF err # "nil" \/ perc = 100 THEN "downloaded" ELSE @,
                           !.opened = ~(err # "nil" \/ perc = 100)]]
    /\ UNCHANGED <<loop, whois, motdBuffer, pendingDCC, accepted, now, inputs, events,
                   storage>>
    /\ UNCHANGED sessionVars

(* The acceptance endpoint: consumes the pending offer of a file name. *)
acceptDCC(file) ==
    /\ file \in DOMAIN pendingDCC
    /\ accepted' = accepted \cup {pendingDCC[file]}
    /\ pendingDCC' = deletePendingDCC(pendingDCC, file)
    /\ UNCHANGED <<loop, whois, motdBuffer, dccProgress, dcc, now, inputs, events, storage>>
    /\ UNCHANGED sessionVars

(* Time passes, but not past the moment a sleeping goroutine is due. *)
tick(d) ==
    /\ now + d <= MaxTime
    /\ \A id \in DOMAIN dcc : dcc[id].pc = "sleeping" => now + d <= dcc[id].wake
    /\ now' = now + d
    /\ UNCHANGED <<loop, whois, motdBuffer, dccProgress, dcc, pendingDCC, accepted, inputs,
                   events, storage>>
    /\ UNCHANGED sessionVars

----------------------------------------------------------------------------
(* The channel-list cache *)

(* The goroutine that listEnd starts for the index it hands over *)
publish(k) ==
    /\ \E t \in tasks :
          /\ t.by = k
          /\ channelIndexes' = [fresh |-> TRUE, index |-> Finish(t.idx)]
          /\ tasks' = tasks \ {t}
    /\ UNCHANGED <<loop, whois, motdBuffer, dccProgress, dcc, pendingDCC, accepted, now,
                   inputs, events, storage, lastConnErr, connState, logLines, registry,
                   listBuffer, updateChanlist, outbound>>

(* The cached index of the host gets old *)
staleIndex ==
    /\ channelIndexes.fresh
    /\ channelIndexes' = [channelIndexes EXCEPT !.fresh = FALSE]
    /\ UNCHANGED <<loop, whois, motdBuffer, dccProgress, dcc, pendingDCC, accepted, now,
                   inputs, events, storage, lastConnErr, connState, logLines, registry,
                   listBuffer, updateChanlist, outbound, tasks>>

(* A client asks for a refresh of the channel list: the flag is set and a   *)
(* LIST request goes out.                                                   *)
requestList ==
    /\ ~updateChanlist
    /\ needsUpdate(channelIndexes)
    /\ updateChanlist' = TRUE
    /\ outbound' = Append(outbound, [op |-> "List", by |-> 0])
    /\ UNCHANGED <<loop, whois, motdBuffer, dccProgress, dcc, pendingDCC, accepted, now,
                   inputs, events, storage, lastConnErr, connState, logLines, registry,
                   listBuffer, channelIndexes, tasks>>

----------------------------------------------------------------------------
(* The state after newIRCHandler *)

Init ==
    /\ loop = "running"
    /\ whois = WhoisReply
    /\ motdBuffer = MOTD
    /\ dccProgress = <<>>
    /\ dcc = EmptyMap
    /\ pendingDCC = EmptyMap
    /\ accepted = {}
    /\ now = 0
    /\ inputs = <<>>
    /\ events = <<>>
    /\ storage = <<>>
    /\ lastConnErr = NilErr
    /\ connState = [Connected |-> FALSE, Error |-> NilErr]
    /\ logLines = <<>>
    /\ registry = [present |-> TRUE, deletes |-> 0]
    /\ listBuffer = NilIndex
    /\ updateChanlist = FALSE
    /\ channelIndexes = [fresh |-> FALSE, index |-> NilIndex]
    /\ outbound = <<>>
    /\ tasks = {}

----------------------------------------------------------------------------
(* Inputs *)

me == <<"m", "e">>
alice == <<"a", "l">>
bob == <<"b", "o">>
chanA == <<"#", "a">>
chanB == <<"&", "b">>
word == <<"x">>
hashInside == <<"x", "#">>

WhoisMsgs ==
    { Msg(RPL_WHOISUSER, <<me, alice, <<"u", "1">>, <<"h", "1">>, <<"*">>, <<"r", "1">>>>),
      Msg(RPL_WHOISUSER, <<me, bob, <<"u", "2">>, <<"h", "2">>, <<"*">>, <<"r", "2">>>>),
      Msg(RPL_WHOISUSER, <<me, <<>>, <<"u", "3">>, <<"h", "3">>, <<"*">>, <<"r", "3">>>>),
      Msg(RPL_WHOISUSER, <<me, alice>>),
      Msg(RPL_WHOISSERVER, <<me, alice, <<"s", "v">>, <<"i">>>>),
      Msg(RPL_WHOISCHANNELS, <<me, alice, <<"#", "a", " ", "&", "b", " ">>>>),
      Msg(RPL_ENDOFWHOIS, <<me, alice, <<"e", "n", "d">>>>) }

NextWhois == \E msg \in WhoisMsgs : runMessage(msg)

SpecWhois == Init /\ [][NextWhois]_vars

MotdMsgs ==
    { Msg(RPL_MOTDSTART, <<me, <<"t">>>>),
      Msg(RPL_MOTD, <<me, <<"l", "1">>>>),
      Msg(RPL_MOTD, <<me, <<"l", "2">>>>),
      Msg(RPL_ENDOFMOTD, <<me, <<"e", "n", "d">>>>) }

NextMotd == \E msg \in MotdMsgs : runMessage(msg)

SpecMotd == Init /\ [][NextMotd]_vars

MaxErrInputs == 2

ErrCommands ==
    {ERR_NOSUCHCHANNEL, ERR_ERRONEUSNICKNAME, ERR_NICKNAMEINUSE, ERR_NICKCOLLISION,
     ERR_UNAVAILRESOURCE, ERR_FORWARD, ERROR, RPL_MOTD}

ErrParams ==
    { <<>>, <<chanA>>, <<me, chanA>>, <<chanA, word, word>>, <<me, chanA, word>>,
      <<me, word, chanB>>, <<me, word, chanB, chanA, word>>, <<me, word, word>>,
      <<me, hashInside, word>> }

ErrMsgs == {Msg(c, p) : c \in ErrCommands, p \in ErrParams}

NextErr == \E msg \in ErrMsgs : Len(inputs) < MaxErrInputs /\ runMessage(msg)

SpecErr == Init /\ [][NextErr]_vars

MaxOffers == 2

fileF == <<"f">>
fileG == <<"g">>

Files == {fileF, fileG}

DccSend(file) ==
    [Command |-> PRIVMSG, Params |-> <<me, <<"D", "C", "C">>>>, Sender |-> alice,
     FromServer |-> FALSE,
     CTCP |-> [Command |-> "DCC", Send |-> TRUE, Pack |-> <<[File |-> file]>>]]

DccMsgs == {DccSend(f) : f \in Files}

NextDcc ==
    \/ \E msg \in DccMsgs : Cardinality(DOMAIN dcc) < MaxOffers /\ runMessage(msg)
    \/ \E id \in DOMAIN dcc : \E enabled \in BOOLEAN, autoget \in BOOLEAN, openOk \in BOOLEAN :
          receiveDCCSend(id, enabled, autoget, openOk)
    \/ \E id \in DOMAIN dcc : dccOffer(id)
    \/ \E id \in DOMAIN dcc : dccExpire(id)
    \/ \E id \in DOMAIN dcc : DownloadDCC(id, 100, "nil")
    \/ \E file \in Files : acceptDCC(file)
    \/ \E d \in Deltas : tick(d)
    \/ runProgress

SpecDcc == Init /\ [][NextDcc]_vars

MaxTransfers == 1

NextTransfer ==
    \/ \E msg \in DccMsgs : Cardinality(DOMAIN dcc) < MaxTransfers /\ runMessage(msg)
    \/ \E id \in DOMAIN dcc : \E openOk \in BOOLEAN : receiveDCCSend(id, TRUE, TRUE, openOk)
    \/ \E id \in DOMAIN dcc : \E perc \in Percents, err \in {"nil", "err"} :
          DownloadDCC(id, perc, err)
    \/ runProgress

SpecTransfer == Init /\ [][NextTransfer]_vars

MaxTextInputs == 2

star == <<"*">>

TextTargets == {me, chanA, star}

(* Who sent a PRIVMSG or NOTICE: a user, the server, a user named "*". *)
TextSenders ==
    { [Sender |-> alice, FromServer |-> FALSE],
      [Sender |-> <<"s">>, FromServer |-> TRUE],
      [Sender |-> star, FromServer |-> FALSE] }

(* What msg.ToCTCP() and irc.ParseDCCSend make of the text: no CTCP, an     *)
(* ACTION, another CTCP command, a DCC SEND that parses, a DCC SEND that    *)
(* does not, a DCC command other than SEND.                                 *)
TextCTCPs ==
    { NoCTCP,
      [Command |-> "ACTION", Send |-> FALSE, Pack |-> <<>>],
      [Command |-> "VERSION", Send |-> FALSE, Pack |-> <<>>],
      [Command |-> "DCC", Send |-> TRUE, Pack |-> <<[File |-> fileF]>>],
      [Command |-> "DCC", Send |-> TRUE, Pack |-> <<>>],
      [Command |-> "DCC", Send |-> FALSE, Pack |-> <<>>] }

TextMsgs ==
    { [Command |-> c, Params |-> <<t, word>>, Sender |-> s.Sender,
       FromServer |-> s.FromServer, CTCP |-> x] :
         c \in {PRIVMSG, NOTICE}, t \in TextTargets, s \in TextSenders, x \in TextCTCPs }
    \cup { [Command |-> PRIVMSG, Params |-> <<>>, Sender |-> alice, FromServer |-> FALSE,
            CTCP |-> NoCTCP] }

NextText == \E msg \in TextMsgs : Len(inputs) < MaxTextInputs /\ runMessage(msg)

SpecText == Init /\ [][NextText]_vars

errA == [nil |-> FALSE, text |-> <<"E", "a">>]
errB == [nil |-> FALSE, text |-> <<"E", "b">>]

ConnStates == [Connected : BOOLEAN, Error : {NilErr, errA, errB}]

NextConn ==
    \/ \E state \in ConnStates : runConnection(state)
    \/ runClosed

SpecConn == Init /\ [][NextConn]_vars

plainText ==
    [Command |-> PRIVMSG, Params |-> <<chanA, word>>, Sender |-> alice,
     FromServer |-> FALSE, CTCP |-> NoCTCP]

NextClose ==
    \/ runMessage(plainText)
    \/ Cardinality(DOMAIN dcc) < MaxTransfers /\ runMessage(DccSend(fileF))
    \/ \E id \in DOMAIN dcc : \E autoget \in BOOLEAN : receiveDCCSend(id, TRUE, autoget, TRUE)
    \/ \E id \in DOMAIN dcc : dccOffer(id)
    \/ \E id \in DOMAIN dcc : \E perc \in {50, 100} : DownloadDCC(id, perc, "nil")
    \/ runProgress
    \/ \E state \in {[Connected |-> TRUE, Error |-> NilErr],
                      [Connected |-> FALSE, Error |-> errA]} : runConnection(state)
    \/ runClosed

SpecClose == Init /\ [][NextClose]_vars

connectedState == [Connected |-> TRUE, Error |-> NilErr]

NextQueue ==
    \/ runMessage(plainText)
    \/ Cardinality(DOMAIN dcc) < MaxOffers /\ runMessage(DccSend(fileF))
    \/ \E id \in DOMAIN dcc : receiveDCCSend(id, TRUE, TRUE, TRUE)
    \/ \E id \in DOMAIN dcc : \E perc \in {50, 100} : DownloadDCC(id, perc, "nil")
    \/ runProgress
    \/ runConnection(connectedState)

SpecQueue == Init /\ [][NextQueue]_vars

ListMsgs ==
    { Msg(RPL_WELCOME, <<me, <<"h", "i">>, <<"m", "e">>>>),
      Msg(RPL_LIST, <<me, <<"#", "a">>, <<"3">>, <<"t", "a">>>>),
      Msg(RPL_LIST, <<me, <<"#", "b">>, <<"x">>, <<"t", "b">>>>),
      Msg(RPL_LIST, <<me, <<"#", "c">>, <<"1", "2">>, <<"t", "c">>>>),
      Msg(RPL_LISTEND, <<me, <<"e", "n", "d">>>>) }

NextList ==
    \/ \E msg \in ListMsgs : runMessage(msg)
    \/ \E k \in 1..MaxInputs : publish(k)
    \/ staleIndex
    \/ requestList

(* A goroutine that was started runs. *)
SpecList == Init /\ [][NextList]_vars /\ \A k \in 1..MaxInputs : WF_vars(publish(k))

NextLeak ==
    \/ Cardinality(DOMAIN dcc) < MaxOffers /\ runMessage(DccSend(fileF))
    \/ \E id \in DOMAIN dcc : \E openOk \in BOOLEAN : receiveDCCSend(id, TRUE, TRUE, openOk)
    \/ \E id \in DOMAIN dcc : \E perc \in {50, 100} : DownloadDCC(id, perc, "nil")
    \/ \E id \in DOMAIN dcc : DownloadDCC(id, 50, "err")
    \/ runProgress
    \/ runClosed

(* The select of run takes a notification that is ready, and a transfer     *)
(* that can send its last notification does so.                             *)
SpecLeak ==
    /\ Init /\ [][NextLeak]_vars
    /\ WF_vars(runProgress)
    /\ \A id \in 1..MaxInputs : WF_vars(id \in DOMAIN dcc /\ DownloadDCC(id, 100, "nil"))

----------------------------------------------------------------------------
(* Reading the histories *)

IsCmd(k, cmd) == inputs[k].kind = "msg" /\ inputs[k].msg.Command = cmd

EventsBy(k, name) == {j \in 1..Len(events) : events[j].by = k /\ events[j].name = name}

AllEventsBy(k) == {j \in 1..Len(events) : events[j].by = k}

CallsBy(k, op) == {j \in 1..Len(storage) : storage[j].by = k /\ storage[j].op = op}

Before(k, cmd) == {j \in 1..(k - 1) : IsCmd(j, cmd)}

Last(S) == IF S = {} THEN 0 ELSE CHOOSE j \in S : \A i \in S : i <= j

WhoisEnds == {k \in 1..Len(inputs) : IsCmd(k, RPL_ENDOFWHOIS)}

(* The inputs strictly between the previous whois-end (or the start) and k *)
Segment(k) == (Last(Before(k, RPL_ENDOFWHOIS)) + 1)..(k - 1)

(* k ends a sequence user, (server | channels)*, end; its user message is  *)
(* the first input of the segment.                                          *)
IsWhoisSequence(k) ==
    /\ Segment(k) # {}
    /\ \A j \in Segment(k) :
         IF j = Last(Before(k, RPL_ENDOFWHOIS)) + 1
         THEN IsCmd(j, RPL_WHOISUSER)
         ELSE IsCmd(j, RPL_WHOISSERVER) \/ IsCmd(j, RPL_WHOISCHANNELS)

UserOf(k) == inputs[Last(Before(k, RPL_ENDOFWHOIS)) + 1].msg

NoWhoisEventInside(k) == \A j \in Segment(k) : EventsBy(j, "whois") = {}

----------------------------------------------------------------------------
(* C1 as stated: every sequence user, (server | channels)*, end processed  *)
(* by the run loop emits exactly one whois event, at the end marker, whose  *)
(* nick is Params[1] of the user message.                                   *)
C1_Original ==
    \A k \in WhoisEnds :
        IsWhoisSequence(k) =>
            /\ Cardinality(EventsBy(k, "whois")) = 1
            /\ \A j \in EventsBy(k, "whois") : events[j].data.Nick = UserOf(k).Params[2]
            /\ NoWhoisEventInside(k)

(* C1 amended: the same when the user message's nick parameter is not the  *)
(* empty string; when it is empty the sequence emits no whois event.        *)
C1_WhoisOncePerSequence ==
    \A k \in WhoisEnds :
        IsWhoisSequence(k) =>
            /\ NoWhoisEventInside(k)
            /\ IF UserOf(k).Params[2] # <<>>
               THEN /\ Cardinality(EventsBy(k, "whois")) = 1
                    /\ \A j \in EventsBy(k, "whois") :
                          events[j].data.Nick = UserOf(k).Params[2]
               ELSE EventsBy(k, "whois") = {}

C1_Witness ==
    \E k \in WhoisEnds :
        /\ IsWhoisSequence(k)
        /\ UserOf(k).Params[2] = bob
        /\ \E j \in Segment(k) : IsCmd(j, RPL_WHOISSERVER)
        /\ \E j \in Segment(k) : IsCmd(j, RPL_WHOISCHANNELS)
        /\ \E j \in EventsBy(k, "whois") : events[j].data.Nick = bob

(* C2: a whois-end with no whois-user processed since the previous whois-end *)
(* (or since the start) emits no whois event, whatever server and channels  *)
(* messages came in between.                                                *)
C2_NoUserNoEvent ==
    \A k \in WhoisEnds :
        (\A j \in Segment(k) : ~IsCmd(j, RPL_WHOISUSER)) => EventsBy(k, "whois") = {}

C2_Witness ==
    \E k \in WhoisEnds :
        /\ \A j \in Segment(k) : ~IsCmd(j, RPL_WHOISUSER)
        /\ \E j \in Segment(k) : IsCmd(j, RPL_WHOISSERVER)
        /\ \E j \in Segment(k) : IsCmd(j, RPL_WHOISCHANNELS)
        /\ EventsBy(k, "whois") = {}

(* What the messages of a segment alone accumulate, from the empty value *)
RECURSIVE Accumulate(_, _, _)
Accumulate(acc, j, k) ==
    IF j >= k THEN acc
    ELSE Accumulate(handler([H(j) EXCEPT !.whois = acc], inputs[j].msg).whois, j + 1, k)

(* C3: right after a whois-end is processed every field of the accumulator  *)
(* is empty, whether or not an event was emitted; and a whois event carries *)
(* only what was received since the previous whois-end.                     *)
C3_ResetAfterEnd ==
    /\ (inputs # <<>> /\ IsCmd(Len(inputs), RPL_ENDOFWHOIS)) => whois = WhoisReply
    /\ \A k \in WhoisEnds : \A j \in EventsBy(k, "whois") :
          events[j].data = Accumulate(WhoisReply, Last(Before(k, RPL_ENDOFWHOIS)) + 1, k)

C3_Witness ==
    /\ inputs # <<>> /\ IsCmd(Len(inputs), RPL_ENDOFWHOIS)
    /\ \E k1 \in WhoisEnds : \E k2 \in WhoisEnds :
          /\ k1 < k2
          /\ \E j \in Segment(k1) : IsCmd(j, RPL_WHOISSERVER)
          /\ \E j \in Segment(k1) : IsCmd(j, RPL_WHOISCHANNELS)
          /\ EventsBy(k1, "whois") = {}
          /\ \E j \in EventsBy(k2, "whois") :
                events[j].data.Server = <<>> /\ events[j].data.Channels = <<>>

----------------------------------------------------------------------------
(* MOTD histories *)

MotdEnds == {k \in 1..Len(inputs) : IsCmd(k, RPL_ENDOFMOTD)}

RECURSIVE LinesIn(_, _)
LinesIn(j, k) ==
    IF j >= k THEN <<>>
    ELSE IF IsCmd(j, RPL_MOTD) THEN <<LastParam(inputs[j].msg)>> \o LinesIn(j + 1, k)
    ELSE LinesIn(j + 1, k)

(* C4 as stated: every motd-end emits exactly one motd event whose content  *)
(* is the motd lines received since the most recent motd-start (since the   *)
(* previous motd-end when no start came after it), in arrival order.        *)
C4_ContentSinceLastStart ==
    \A k \in MotdEnds :
        /\ Cardinality(EventsBy(k, "motd")) = 1
        /\ \A j \in EventsBy(k, "motd") :
              events[j].data.Content =
                  LinesIn(Last(Before(k, RPL_MOTDSTART) \cup Before(k, RPL_ENDOFMOTD)) + 1, k)

----------------------------------------------------------------------------
(* Error replies *)

ErrorReplies ==
    {k \in 1..Len(inputs) :
        /\ inputs[k].kind = "msg"
        /\ Len(inputs[k].msg.Command) > 0
        /\ inputs[k].msg.Command[1] = "4"}

Excluded == {ERR_NICKNAMEINUSE, ERR_NICKCOLLISION, ERR_UNAVAILRESOURCE, ERR_FORWARD}

(* C5: a reply whose command starts with '4' and is not nickname-in-use,    *)
(* nick-collision, resource-unavailable or forward produces exactly one     *)
(* error event, sent before any event of its handler; a reply whose command *)
(* is one of those four produces no error event.                            *)
C5_ErrorEventUnlessExcluded ==
    \A k \in ErrorReplies :
        IF inputs[k].msg.Command \in Excluded
        THEN EventsBy(k, "error") = {}
        ELSE /\ Cardinality(EventsBy(k, "error")) = 1
             /\ \A j \in EventsBy(k, "error") : \A i \in AllEventsBy(k) : j <= i

C5_Witness ==
    /\ \E k \in ErrorReplies :
          /\ inputs[k].msg.Command = ERR_ERRONEUSNICKNAME
          /\ \E j \in EventsBy(k, "error") : \E i \in EventsBy(k, "nick_fail") : j < i
    /\ \E k \in ErrorReplies :
          /\ inputs[k].msg.Command = ERR_FORWARD
          /\ EventsBy(k, "channel_forward") # {}
          /\ EventsBy(k, "error") = {}

NonExcludedErrors == {k \in ErrorReplies : inputs[k].msg.Command \notin Excluded}

(* C6 as stated: the error event's target is the first channel-shaped       *)
(* parameter of the reply, whatever the number of parameters and wherever   *)
(* it stands, and is empty only when no parameter is channel-shaped.        *)
C6_Original ==
    \A k \in NonExcludedErrors : \A j \in EventsBy(k, "error") :
        LET params == inputs[k].msg.Params
            t == events[j].data.Target
        IN  IF \E p \in 1..Len(params) : isChannel(params[p])
            THEN \E p \in 1..Len(params) :
                    /\ isChannel(params[p])
                    /\ \A q \in 1..(p - 1) : ~isChannel(params[q])
                    /\ t = params[p]
            ELSE t = <<>>

(* C6 amended: when the reply has more than two parameters, the target is   *)
(* the first channel-shaped parameter after Params[0]; it is empty when     *)
(* there is none or when the reply has at most two parameters.              *)
C6_TargetAmongLaterParams ==
    \A k \in NonExcludedErrors : \A j \in EventsBy(k, "error") :
        LET params == inputs[k].msg.Params
            t == events[j].data.Target
        IN  IF Len(params) > 2 /\ \E p \in 2..Len(params) : isChannel(params[p])
            THEN \E p \in 2..Len(params) :
                    /\ isChannel(params[p])
                    /\ \A q \in 2..(p - 1) : ~isChannel(params[q])
                    /\ t = params[p]
            ELSE t = <<>>

C6_Witness ==
    /\ \E k \in NonExcludedErrors : \E j \in EventsBy(k, "error") :
          /\ inputs[k].msg.Params = <<me, word, chanB, chanA, word>>
          /\ events[j].data.Target = chanB
    /\ \E k \in NonExcludedErrors : \E j \in EventsBy(k, "error") :
          /\ inputs[k].msg.Params = <<me, chanA>>
          /\ events[j].data.Target = <<>>

----------------------------------------------------------------------------
(* DCC offers *)

Holds(id) == dcc[id].File \in DOMAIN pendingDCC /\ pendingDCC[dcc[id].File] = id

(* C7 as stated: an offer whose dcc_send event was emitted keeps an entry   *)
(* for its file name in the pending-offer table until it is accepted or its *)
(* own 150 seconds are over: while it holds the entry and its own timeout   *)
(* is not yet due, no step removes the entry unless the step accepts it.    *)
C7_StaysUntilAcceptedOrOwnTimeout ==
    [][\A id \in DOMAIN dcc :
          (/\ dcc[id].pc = "sleeping"
           /\ now < dcc[id].sentAt + 150
           /\ Holds(id)
           /\ dcc[id].File \notin DOMAIN pendingDCC')
          => id \in accepted']_vars

Manual(id) == dcc[id].pc # "start" /\ dcc[id].Enabled /\ ~dcc[id].Autoget

(* C8: with DCC enabled and auto-accept off, an offer that was not accepted *)
(* is out of the table once 150 seconds have passed since its dcc_send      *)
(* event and is never in it again; the step that expires it happens no      *)
(* earlier than that, emits no event, and leaves no entry for the file      *)
(* name, so that an acceptance attempt finds nothing.                       *)
C8_ExpiresAfterTimeout ==
    /\ [](\A id \in DOMAIN dcc :
            /\ (Manual(id) /\ dcc[id].pc = "sleeping") => now <= dcc[id].sentAt + 150
            /\ (Manual(id) /\ dcc[id].pc = "expired") =>
                  (now >= dcc[id].sentAt + 150 /\ ~Holds(id)))
    /\ [][\A id \in DOMAIN dcc :
            (dcc[id].pc = "sleeping" /\ dcc'[id].pc = "expired") =>
                /\ Manual(id)
                /\ now >= dcc[id].sentAt + 150
                /\ events' = events
                /\ dcc[id].File \notin DOMAIN pendingDCC']_vars

C8_Witness ==
    \E id \in DOMAIN dcc :
        /\ Manual(id)
        /\ dcc[id].pc = "expired"
        /\ id \notin accepted
        /\ now = dcc[id].sentAt + 150
        /\ Cardinality(EventsBy(id, "dcc_send")) = 1
        /\ dcc[id].File \notin DOMAIN pendingDCC

ProgressOf(id) ==
    {k \in 1..Len(inputs) : inputs[k].kind = "progress" /\ inputs[k].progress.transfer = id}

Queued(id) == {j \in 1..Len(dccProgress) : dccProgress[j].transfer = id}

(* C9: a detected offer has exactly one outcome.  DCC disabled: no event,   *)
(* no pending entry, no transfer.  Auto-accept: no dcc_send event, no       *)
(* pending entry, a transfer only if the file opened, and nothing at all    *)
(* when it did not.  Otherwise: one pending entry recorded under the file   *)
(* name, one dcc_send event, and no file opened or transfer started.        *)
C9_OneOutcomePerOffer ==
    \A id \in DOMAIN dcc :
        dcc[id].pc # "start" =>
            LET g == dcc[id]
                quiet == AllEventsBy(id) = {} /\ ProgressOf(id) = {} /\ Queued(id) = {}
                         /\ g.produced = 0 /\ ~g.opened
            IN  IF ~g.Enabled
                THEN g.pc = "dropped" /\ quiet /\ g.recorded = 0 /\ ~Holds(id)
                ELSE IF g.Autoget
                THEN /\ AllEventsBy(id) = {} /\ g.recorded = 0 /\ ~Holds(id)
                     /\ IF g.openOk
                        THEN g.pc \in {"downloading", "downloaded"}
                        ELSE g.pc = "openFailed" /\ quiet
                ELSE /\ g.recorded = 1
                     /\ g.produced = 0 /\ ~g.opened /\ ProgressOf(id) = {} /\ Queued(id) = {}
                     /\ g.pc \in {"recorded", "sleeping", "expired"}
                     /\ Cardinality(EventsBy(id, "dcc_send")) =
                            (IF g.pc = "recorded" THEN 0 ELSE 1)
                     /\ AllEventsBy(id) = EventsBy(id, "dcc_send")

C9_Witness ==
    /\ \E id \in DOMAIN dcc :
          /\ Manual(id) /\ dcc[id].pc = "sleeping" /\ Holds(id)
          /\ Cardinality(EventsBy(id, "dcc_send")) = 1
    /\ \E id \in DOMAIN dcc :
          /\ dcc[id].Enabled /\ dcc[id].Autoget /\ dcc[id].pc = "downloaded"
          /\ ProgressOf(id) # {}

----------------------------------------------------------------------------
(* DCC progress *)

ProgressInputs == {k \in 1..Len(inputs) : inputs[k].kind = "progress"}

Expected(p) ==
    IF p.Error # "nil" THEN "%s: Download failed (%s)"
    ELSE IF p.PercCompletion = 100
    THEN "Download finished, get it here: %s://%s/downloads/%s/%s"
    ELSE IF p.PercCompletion = 0 THEN "%s: Starting download"
    ELSE "%s: %.1f%%, %s, %s remaining, %.1fs left"

(* C10: each progress notification taken by the run loop yields exactly one *)
(* status message: the failure format when an error is present, whatever    *)
(* the percentage; else the completion format at 100; else the start format *)
(* at 0; else the continuation format.  The first three are also stored     *)
(* (AddOpenDM and LogMessage from the sender @dcc), the last is not.        *)
C10_StatusByPrecedence ==
    \A k \in ProgressInputs :
        LET p == inputs[k].progress
            logged == p.Error # "nil" \/ p.PercCompletion \in {0, 100}
        IN  /\ Cardinality(AllEventsBy(k)) = 1
            /\ \A j \in AllEventsBy(k) :
                  /\ events[j].name = "pm"
                  /\ events[j].data.From = <<"@", "d", "c", "c">>
                  /\ events[j].data.Content.format = Expected(p)
            /\ Cardinality(CallsBy(k, "AddOpenDM")) = (IF logged THEN 1 ELSE 0)
            /\ Cardinality(CallsBy(k, "LogMessage")) = (IF logged THEN 1 ELSE 0)
            /\ \A j \in CallsBy(k, "LogMessage") : storage[j].args.From = <<"@", "d", "c", "c">>

C10_Witness ==
    /\ \E k \in ProgressInputs :
          /\ inputs[k].progress.Error = "err" /\ inputs[k].progress.PercCompletion = 100
          /\ \E j \in AllEventsBy(k) : events[j].data.Content.format = DownloadFailed
          /\ CallsBy(k, "LogMessage") # {}
    /\ \E k \in ProgressInputs :
          /\ inputs[k].progress.Error = "nil" /\ inputs[k].progress.PercCompletion = 50
          /\ \E j \in AllEventsBy(k) : events[j].data.Content.format = DownloadProgress
          /\ CallsBy(k, "LogMessage") = {}
    /\ \E k \in ProgressInputs :
          /\ inputs[k].progress.Error = "nil" /\ inputs[k].progress.PercCompletion = 0
          /\ \E j \in AllEventsBy(k) : events[j].data.Content.format = DownloadStarting

----------------------------------------------------------------------------
(* PRIVMSG and NOTICE *)

TextInputs ==
    {k \in 1..Len(inputs) : inputs[k].kind = "msg"
                              /\ inputs[k].msg.Command \in {PRIVMSG, NOTICE}}

(* The inputs that are a PRIVMSG or NOTICE without CTCP and name a target *)
Plain == {k \in TextInputs : inputs[k].msg.CTCP = NoCTCP /\ Len(inputs[k].msg.Params) > 0}

LoggedTo(k, to) == \A j \in CallsBy(k, "LogMessage") : storage[j].args.To = to

(* C11: a PRIVMSG or NOTICE without CTCP whose target is the own nick gives *)
(* exactly one pm event and no message event, registers the sender as an    *)
(* open direct message unless the server sent it, and is stored under the   *)
(* sender; one with another target gives exactly one message event carrying *)
(* that target and no pm event, and is stored under that target.            *)
C11_RoutedByTarget ==
    \A k \in Plain :
        LET msg == inputs[k].msg
            target == msg.Params[1]
        IN  IF Is(target)
            THEN /\ Cardinality(EventsBy(k, "pm")) = 1
                 /\ EventsBy(k, "message") = {}
                 /\ ~msg.FromServer =>
                        \E j \in CallsBy(k, "AddOpenDM") :
                            storage[j].args = <<Host, msg.Sender>>
                 /\ LoggedTo(k, msg.Sender)
            ELSE /\ Cardinality(EventsBy(k, "message")) = 1
                 /\ \A j \in EventsBy(k, "message") : events[j].data.To = target
                 /\ EventsBy(k, "pm") = {}
                 /\ LoggedTo(k, target)

C11_Witness ==
    /\ \E k \in Plain : /\ Is(inputs[k].msg.Params[1])
                          /\ ~inputs[k].msg.FromServer
                          /\ CallsBy(k, "LogMessage") # {}
                          /\ CallsBy(k, "AddOpenDM") # {}
    /\ \E k \in Plain : /\ inputs[k].msg.Params[1] = chanA
                          /\ EventsBy(k, "message") # {}
                          /\ CallsBy(k, "LogMessage") # {}

(* The sender of a private message, the channel of any other *)
EffectiveTarget(msg) == IF Is(msg.Params[1]) THEN msg.Sender ELSE msg.Params[1]

(* C12: a PRIVMSG or NOTICE without CTCP is stored by exactly one           *)
(* LogMessage call when its effective target is not "*" and the server did  *)
(* not send it, and by none otherwise; a private message from the server    *)
(* still gives its pm event, but no LogMessage and no AddOpenDM call.       *)
C12_PersistedIffNamedAndNotServer ==
    \A k \in Plain :
        LET msg == inputs[k].msg
        IN  /\ Cardinality(CallsBy(k, "LogMessage")) =
                  IF EffectiveTarget(msg) # star /\ ~msg.FromServer THEN 1 ELSE 0
            /\ (Is(msg.Params[1]) /\ msg.FromServer) =>
                  /\ Cardinality(EventsBy(k, "pm")) = 1
                  /\ CallsBy(k, "LogMessage") = {}
                  /\ CallsBy(k, "AddOpenDM") = {}

C12_Witness ==
    /\ \E k \in Plain : Is(inputs[k].msg.Params[1]) /\ inputs[k].msg.FromServer
                          /\ EventsBy(k, "pm") # {}
    /\ \E k \in Plain : EffectiveTarget(inputs[k].msg) = star /\ ~inputs[k].msg.FromServer
                          /\ AllEventsBy(k) # {}

IsSend(ctcp) == ctcp.Command = "DCC" /\ ctcp.Send

(* C13: of the PRIVMSG and NOTICE messages that carry a CTCP, a DCC SEND    *)
(* starts the handling of an offer and gives no message and no pm event,    *)
(* whether or not the offer parses; an ACTION is handled as text, with its  *)
(* one pm or message event; every other CTCP gives no event, no storage     *)
(* call and no offer.                                                       *)
C13_ControlMessages ==
    \A k \in TextInputs :
        LET ctcp == inputs[k].msg.CTCP
        IN  (ctcp # NoCTCP /\ Len(inputs[k].msg.Params) > 0) =>
              IF IsSend(ctcp)
              THEN EventsBy(k, "message") = {} /\ EventsBy(k, "pm") = {}
              ELSE IF ctcp.Command = "ACTION"
              THEN Cardinality(EventsBy(k, "message") \cup EventsBy(k, "pm")) = 1
              ELSE /\ AllEventsBy(k) = {}
                   /\ {j \in 1..Len(storage) : storage[j].by = k} = {}
                   /\ k \notin DOMAIN dcc

----------------------------------------------------------------------------
(* The connection-state case of the run loop *)

ConnInputs == {k \in 1..Len(inputs) : inputs[k].kind = "conn"}

LinesBy(k) == {j \in 1..Len(logLines) : logLines[j].by = k}

ErrorLines == {j \in 1..Len(logLines) : logLines[j].words = ConnectionError}

(* The text of the last error logged for an input before k, <<>> if none *)
LoggedBefore(k) ==
    LET S == {j \in ErrorLines : logLines[j].by < k}
    IN  IF S = {} THEN <<>> ELSE logLines[Last(S)].err

NoErrorTwice ==
    \A i \in ErrorLines, j \in ErrorLines :
        (i < j /\ \A m \in ErrorLines : ~(i < m /\ m < j)) => logLines[i].err # logLines[j].err

(* C14 as stated: no two successive error lines of the log carry the same   *)
(* text, and every connection-state change with the connected flag set has  *)
(* its "Connected" line, also one that carries an error.                    *)
C14_Original ==
    /\ NoErrorTwice
    /\ \A k \in ConnInputs :
          inputs[k].state.Connected =>
              \E j \in LinesBy(k) : logLines[j].words = Connected

(* C14, amended: no two successive error lines of the log carry the same    *)
(* text; a connection-state change logs exactly one line, the error, when   *)
(* it carries an error whose text differs from the last error logged;       *)
(* otherwise it logs exactly one line, "Connected", when its connected flag *)
(* is set, and nothing when it is not.                                      *)
C14_ErrorFirstElseConnected ==
    /\ NoErrorTwice
    /\ \A k \in ConnInputs :
          LET state == inputs[k].state
              fresh == ~state.Error.nil /\ state.Error.text # LoggedBefore(k)
          IN  IF fresh
              THEN /\ Cardinality(LinesBy(k)) = 1
                   /\ \A j \in LinesBy(k) : /\ logLines[j].words = ConnectionError
                                              /\ logLines[j].err = state.Error.text
              ELSE IF state.Connected
              THEN /\ Cardinality(LinesBy(k)) = 1
                   /\ \A j \in LinesBy(k) : logLines[j].words = Connected
              ELSE LinesBy(k) = {}

C14_Witness ==
    \E k1 \in ConnInputs, k2 \in ConnInputs, k3 \in ConnInputs :
        /\ k1 < k2 /\ k2 < k3
        /\ inputs[k1].state = [Connected |-> TRUE, Error |-> errA]
        /\ inputs[k2].state = [Connected |-> TRUE, Error |-> errA]
        /\ inputs[k3].state = [Connected |-> FALSE, Error |-> errB]
        /\ \E j \in LinesBy(k1) : logLines[j].words = ConnectionError
        /\ \E j \in LinesBy(k2) : logLines[j].words = Connected
        /\ \E j \in LinesBy(k3) : logLines[j].err = errB.text

----------------------------------------------------------------------------
(* The order of the events *)

(* C15 as stated: the events are sent in the order in which the run loop    *)
(* took the inputs that caused them, the dcc_send event of an offer         *)
(* included.                                                                *)
C15_Original ==
    \A i \in 1..Len(events), j \in 1..Len(events) :
        i < j => events[i].by <= events[j].by

(* C15, amended: an event that is sent after an event of a later input is   *)
(* the dcc_send event of an offer, which the offer's own goroutine sends;   *)
(* the events the run loop sends itself are in the order of their inputs.   *)
C15_OnlyOffersLate ==
    \A i \in 1..Len(events), j \in 1..Len(events) :
        (i < j /\ events[i].by > events[j].by) => events[j].name = "dcc_send"

C15_Witness ==
    \E i \in 1..Len(events), j \in 1..Len(events) :
        /\ i < j
        /\ events[i].by > events[j].by
        /\ events[i].name = "pm"
        /\ events[j].name = "dcc_send"

----------------------------------------------------------------------------
(* The end of the run loop *)

ClosedInputs == {k \in 1..Len(inputs) : inputs[k].kind = "closed"}

(* An event that a goroutine of receiveDCCSend sends, not the run loop *)
SentByOffer(e) == e.name = "dcc_send" /\ e.by \in DOMAIN dcc

(* C16: the input after which the run loop has returned is the one that     *)
(* found the inbound stream closed; it is the last input the loop takes, it *)
(* sends no event, and it removes the session from the registry, once.      *)
(* From then on no step takes an inbound message, a connection-state change *)
(* or a progress notification (the queue only grows), touches the registry, *)
(* or sends an event from the run loop.                                     *)
C16_ClosedIsTheEnd ==
    /\ [](/\ loop = "returned" <=> ClosedInputs # {}
          /\ \A k \in ClosedInputs : k = Len(inputs) /\ AllEventsBy(k) = {}
          /\ registry = IF ClosedInputs = {} THEN [present |-> TRUE, deletes |-> 0]
                        ELSE [present |-> FALSE, deletes |-> 1])
    /\ [][loop = "returned" =>
            /\ loop' = "returned"
            /\ UNCHANGED <<inputs, registry, logLines, connState, storage>>
            /\ Len(dccProgress') >= Len(dccProgress)
            /\ SubSeq(dccProgress', 1, Len(dccProgress)) = dccProgress
            /\ \/ events' = events
               \/ /\ Len(events') = Len(events) + 1
                  /\ SubSeq(events', 1, Len(events)) = events
                  /\ SentByOffer(events'[Len(events')])]_vars

C16_Witness ==
    /\ loop = "returned"
    /\ dccProgress # <<>>
    /\ \E k \in 1..Len(inputs) : inputs[k].kind = "progress"
    /\ \E k \in 1..Len(inputs) : inputs[k].kind = "conn"

----------------------------------------------------------------------------
(* Storage calls and crashes *)

(* C17: every call on the storage that a step of the run loop makes is      *)
(* started as a goroutine of its own, so that the step does not wait for it *)
(* to return.                                                               *)
C17_StorageNeverAwaited ==
    \A j \in 1..Len(storage) : storage[j].async

(* C18: no inbound message makes the run loop panic, whatever its command   *)
(* and however many parameters it has.                                      *)
C18_NoMessageCrashes == loop # "panicked"

----------------------------------------------------------------------------
(* The progress queue *)

RECURSIVE SeqsOf(_, _)
(* The numbers of the notifications of transfer id in sequence q, in order *)
SeqsOf(q, id) ==
    IF q = <<>> THEN <<>>
    ELSE IF Head(q).transfer = id THEN <<Head(q).seq>> \o SeqsOf(Tail(q), id)
    ELSE SeqsOf(Tail(q), id)

RECURSIVE Handled(_)
(* The notifications among the first n inputs, in the order they were taken *)
Handled(n) ==
    IF n = 0 THEN <<>>
    ELSE IF inputs[n].kind = "progress" THEN Append(Handled(n - 1), inputs[n].progress)
    ELSE Handled(n - 1)

Transferring(id) == dcc[id].pc = "downloading"

(* C19: the progress queue never holds more than 4 notifications, and while *)
(* it holds 4 no transfer gets a notification in; for every transfer the    *)
(* notifications the run loop has handled, followed by those still queued,  *)
(* are the ones it produced, each once and in the order of production; and  *)
(* while a transfer is under way, also with the queue full, the run loop    *)
(* can take an inbound message and a connection-state change.               *)
C19_BoundedOrderedQueue ==
    /\ [](/\ Len(dccProgress) <= 4
          /\ \A id \in DOMAIN dcc :
                SeqsOf(Handled(Len(inputs)) \o dccProgress, id) =
                    [n \in 1..dcc[id].produced |-> n]
          /\ ((\E id \in DOMAIN dcc : Transferring(id)) /\ Len(inputs) < MaxInputs) =>
                (ENABLED runMessage(plainText)) /\ (ENABLED runConnection(connectedState)))
    /\ [][Len(dccProgress) = 4 =>
            \A id \in DOMAIN dcc : dcc'[id].produced = dcc[id].produced]_vars

C19_Witness ==
    /\ Len(dccProgress) = 4
    /\ \E id \in DOMAIN dcc :
          /\ Transferring(id)
          /\ dcc[id].produced >= 2
          /\ \E k \in 1..Len(inputs) : k > id /\ inputs[k].kind = "conn"
          /\ \E k \in 1..Len(inputs) : k > id /\ inputs[k].kind = "msg"
                                            /\ inputs[k].msg = plainText

----------------------------------------------------------------------------
(* The channel list *)

(* The welcome replies that found the cached index absent or stale: those   *)
(* for which the handler sent a LIST request                                *)
Refreshing(w) ==
    /\ w \in 1..Len(inputs)
    /\ IsCmd(w, RPL_WELCOME)
    /\ \E j \in 1..Len(outbound) : outbound[j].by = w

(* Input e is the list-end of the list that the welcome reply w asked for:  *)
(* only list entries lie between them.                                      *)
ListOf(w, e) ==
    /\ Refreshing(w)
    /\ e \in (w + 1)..Len(inputs)
    /\ IsCmd(e, RPL_LISTEND)
    /\ \A k \in (w + 1)..(e - 1) : IsCmd(k, RPL_LIST)

EntryOf(k) ==
    LET params == inputs[k].msg.Params
    IN  [Name |-> params[2],
         UserCount |-> IF params[3] = <<"3">> THEN 3
                       ELSE IF params[3] = <<"1", "2">> THEN 12 ELSE 0,
         Topic |-> params[Len(params)]]

(* The entries of the list entries between w and e, as a set *)
Entries(w, e) ==
    {EntryOf(k) : k \in {j \in (w + 1)..(e - 1) : j <= Len(inputs) /\ IsCmd(j, RPL_LIST)}}

Items(idx) == {idx.items[n] : n \in DOMAIN idx.items}

(* The goroutine that the list-end e started has not run yet *)
Pending(e) == \E t \in tasks : t.by = e

Published(w, e) ==
    /\ ~channelIndexes.index.nil
    /\ channelIndexes.index.finished
    /\ channelIndexes.fresh
    /\ Items(channelIndexes.index) = Entries(w, e)

----------------------------------------------------------------------------
(* Where an accumulator comes from *)

(* The step is the run loop handling a message with command cmd *)
Took(cmd) ==
    /\ Len(inputs') = Len(inputs) + 1
    /\ inputs'[Len(inputs')].kind = "msg"
    /\ inputs'[Len(inputs')].msg.Command = cmd

CacheFresh == ~channelIndexes.index.nil /\ channelIndexes.fresh

(* C21: the accumulator reference goes from nil to an accumulator only in   *)
(* the handling of a welcome reply while the cached index of the host is    *)
(* absent or stale, or of a list entry while the refresh flag is set; a     *)
(* list entry or list-end handled with no accumulator and the flag unset    *)
(* leaves the accumulator, the events, the requests sent, the flag, the     *)
(* cache, the goroutines and the storage calls as they were; a welcome      *)
(* reply handled while the cached index is fresh sends no request and       *)
(* leaves the accumulator reference as it was.                              *)
C21_AccumulatorOrigin ==
    [][/\ (listBuffer.nil /\ ~listBuffer'.nil) =>
            \/ Took(RPL_WELCOME) /\ ~CacheFresh
            \/ Took(RPL_LIST) /\ updateChanlist
       /\ ((Took(RPL_LIST) \/ Took(RPL_LISTEND)) /\ listBuffer.nil /\ ~updateChanlist) =>
            UNCHANGED <<listBuffer, events, outbound, updateChanlist, channelIndexes,
                        tasks, storage, loop>>
       /\ (Took(RPL_WELCOME) /\ CacheFresh) => UNCHANGED <<outbound, listBuffer>>]_vars

(* A welcome reply found the cached index fresh, and the list entry handled *)
(* last found no accumulator and the flag unset.                            *)
C21_Witness ==
    /\ Len(inputs) > 0
    /\ IsCmd(Len(inputs), RPL_LIST)
    /\ listBuffer.nil
    /\ ~updateChanlist
    /\ \E w \in 1..Len(inputs) :
          IsCmd(w, RPL_WELCOME) /\ \A j \in 1..Len(outbound) : outbound[j].by # w
    /\ \E j \in 1..Len(outbound) : outbound[j].by = 0

----------------------------------------------------------------------------
(* The two events of a rejected nick *)

BadNicks == {k \in 1..Len(inputs) : IsCmd(k, ERR_ERRONEUSNICKNAME)}

(* C22: a 432 reply gives exactly two events, the error event and the       *)
(* nick_fail event, in that order; and for every message the error event    *)
(* that dispatchMessage sends for a 4xx command comes before every other    *)
(* event of that message.                                                   *)
C22_ErrorThenNickFail ==
    /\ \A k \in BadNicks :
          /\ Cardinality(AllEventsBy(k)) = 2
          /\ \E i \in EventsBy(k, "error"), j \in EventsBy(k, "nick_fail") : i < j
    /\ \A k \in 1..Len(inputs) :
          (/\ inputs[k].kind = "msg"
           /\ Len(inputs[k].msg.Command) > 0
           /\ inputs[k].msg.Command[1] = "4"
           /\ inputs[k].msg.Command \notin Excluded) =>
             \E i \in EventsBy(k, "error") : \A j \in AllEventsBy(k) : i <= j

C22_Witness ==
    \E k \in BadNicks :
        \E i \in EventsBy(k, "error"), j \in EventsBy(k, "nick_fail") :
            /\ j = i + 1
            /\ events[i].data.Target = chanB

----------------------------------------------------------------------------
(* The refresh flag at the end of a list *)

(* C23 as stated: the handling of a list-end that finds the refresh flag    *)
(* set leaves it cleared, also when the session holds no accumulator.       *)
C23_Original ==
    [][(Took(RPL_LISTEND) /\ updateChanlist) => ~updateChanlist']_vars

(* C23, amended: the handling of a list-end clears the refresh flag when    *)
(* the session holds an accumulator, and leaves the flag as it was, set     *)
(* included, when it holds none.                                            *)
C23_ClearedIfAccumulator ==
    [][Took(RPL_LISTEND) =>
          updateChanlist' = IF listBuffer.nil THEN updateChanlist ELSE FALSE]_vars

Requests == {j \in 1..Len(outbound) : outbound[j].by = 0}

(* A first request was followed by a list entry and a list-end, which       *)
(* cleared the flag; the list-end handled last came after a second request  *)
(* and no list entry, and the flag is still set.                            *)
C23_Witness ==
    /\ Len(inputs) >= 3
    /\ IsCmd(Len(inputs), RPL_LISTEND)
    /\ updateChanlist
    /\ listBuffer.nil
    /\ Cardinality(Requests) = 2
    /\ \E e \in 2..(Len(inputs) - 1) : IsCmd(e, RPL_LISTEND) /\ IsCmd(e - 1, RPL_LIST)
    /\ \A w \in 1..Len(inputs) : ~IsCmd(w, RPL_WELCOME)

----------------------------------------------------------------------------
(* The end of a transfer *)

(* DownloadDCC has returned and the deferred file.Close() has run *)
Terminal(id) == dcc[id].pc = "downloaded" /\ ~dcc[id].opened

(* The run loop is alive and the history of inputs has no room left *)
HistoryFull == loop = "running" /\ Len(inputs) >= MaxInputs

(* C24: a transfer that was accepted automatically and has its file open    *)
(* eventually finishes, with or without an error, and closes the file, also *)
(* when the run loop has returned in the meantime.                          *)
C24_TransferTerminates ==
    \A id \in 1..MaxInputs :
        (id \in DOMAIN dcc /\ Transferring(id)) ~>
            ((id \in DOMAIN dcc /\ Terminal(id)) \/ HistoryFull)

----------------------------------------------------------------------------
(* The remembered connection error *)

(* C25: lastConnErr changes only in a step that logs an error, and to that  *)
(* error, so that it is always the error logged last and nil only while     *)
(* none was logged; a connection-state change whose error has the text of   *)
(* the error logged last logs no error line, whatever was logged in         *)
(* between; and every connection-state change sends exactly one             *)
(* connection_update event.                                                 *)
C25_RememberedError ==
    /\ [](/\ IF ErrorLines = {} THEN lastConnErr = NilErr
             ELSE ~lastConnErr.nil /\ lastConnErr.text = logLines[Last(ErrorLines)].err
          /\ \A k \in ConnInputs :
                /\ Cardinality(AllEventsBy(k)) = 1
                /\ Cardinality(EventsBy(k, "connection_update")) = 1
                /\ (/\ ~inputs[k].state.Error.nil
                    /\ \E j \in ErrorLines : logLines[j].by < k
                    /\ inputs[k].state.Error.text = LoggedBefore(k)) =>
                      \A j \in LinesBy(k) : logLines[j].words # ConnectionError)
    /\ [][lastConnErr' # lastConnErr =>
            /\ ~lastConnErr'.nil
            /\ logLines' = Append(logLines, logLine(Len(inputs) + 1, ConnectionError,
                                                    lastConnErr'.text))]_vars

C25_Witness ==
    \E k1 \in ConnInputs, k2 \in ConnInputs, k3 \in ConnInputs :
        /\ k1 < k2 /\ k2 < k3
        /\ inputs[k1].state = [Connected |-> FALSE, Error |-> errA]
        /\ inputs[k2].state = [Connected |-> TRUE, Error |-> NilErr]
        /\ inputs[k3].state = [Connected |-> FALSE, Error |-> errA]
        /\ \A k \in k1..k3 : inputs[k].kind = "conn" /\ inputs[k].state.Error # errB
        /\ \E j \in LinesBy(k2) : logLines[j].words = Connected
        /\ LinesBy(k3) = {}
        /\ lastConnErr = errA

=============================================================================
